---- MODULE Spec2Model ----
(***************************************************************************)
(* Model of scripts/generate_icons.py: the icon generator of the Qve app.  *)
(* One run is: module import (TEMP lookup), main(): makedirs, the loop     *)
(* over `sizes`, the 16x16 render, create_ico, create_svg_favicon, the     *)
(* 180x180 render and the final summary.  A canvas is kept as its          *)
(* geometry (dimensions, background, glyph ink box, accent rectangle);     *)
(* the colour of a pixel is computed from it on demand.                    *)
(***************************************************************************)
EXTENDS Integers, Sequences, FiniteSets, TLC

(* ---------------------------- bounds ---------------------------------- *)
\* number of times the program is run in one behaviour
MaxRuns == 2

(* ------------------------- program constants -------------------------- *)
BG_COLOR == <<10, 9, 8, 255>>
TEXT_COLOR == <<240, 237, 230, 255>>
WINE_COLOR == <<139, 74, 92, 255>>

\* file names (STATIC_DIR/..., and TEMP/icon-16.png)
P32 == "favicon-32x32.png"
P192 == "icon-192.png"
P512 == "icon-512.png"
PICO == "favicon.ico"
PSVG == "favicon.svg"
PAPPLE == "apple-touch-icon.png"
T16 == "TEMP/icon-16.png"

StaticFiles == {P32, P192, P512, PICO, PSVG, PAPPLE}
AllPaths == StaticFiles \cup {T16}

\* the dict `sizes` of main(), in insertion order
sizes_rev == << [file |-> P512, size |-> 512],
               [file |-> P192, size |-> 192],
               [file |-> P32, size |-> 32] >>
sizes == << [file |-> P32, size |-> 32],
           [file |-> P192, size |-> 192],
           [file |-> P512, size |-> 512] >>

\* sizes=[(16, 16), (32, 32)] handed to the ICO writer
IcoSizes == {16, 32}

\* the document create_svg_favicon writes (a fixed string literal)
SVG_TEXT == [kind |-> "svg",
             text |-> "rect rx=12; text Q x=50 y=72 size=72; line 40..60 y=80; light-scheme override"]

(* ------------------------------ values -------------------------------- *)
\* what a path can hold besides a file written by a complete step
Absent == [kind |-> "absent"]
Partial == [kind |-> "partial"]
Stale == [kind |-> "stale"]
NoImg == [none |-> TRUE]
NoCall == [none |-> TRUE]
NoSnapshot == [taken |-> FALSE]

\* The font file at FONT_PATH: missing/unloadable, or a face whose "Q" has
\* the given metrics in percent of the em (ink width, ink height, left
\* bearing, distance from the ascender line to the ink top).
NoFont == [ok |-> FALSE]
Fonts == { [ok |-> TRUE, w |-> w, h |-> h, b0 |-> b0, b1 |-> b1] :
             w \in {50, 100}, h \in {60, 100}, b0 \in {0, 5}, b1 \in {10, 25} }

\* sizes create_icon is exercised with when it is checked on its own
UnitSizes == {16, 32, 63, 64, 65, 180, 192, 512}

(* --------------------------- arithmetic ------------------------------- *)
Max(a, b) == IF a >= b THEN a ELSE b
Min(a, b) == IF a <= b THEN a ELSE b
\* Python int(n/d): truncation toward zero
Trunc(n, d) == IF n >= 0 THEN n \div d ELSE -((-n) \div d)
Floor(n, d) == n \div d
Ceil(n, d) == -((-n) \div d)

(* -------------------------- create_icon ------------------------------- *)
\* Image.new('RGBA', (size, size), BG_COLOR)
NewImage_nofill(size) == [w |-> size, h |-> size, bg |-> <<0, 0, 0, 0>>]
NewImage(size) == [w |-> size, h |-> size, bg |-> BG_COLOR]

\* font_size = int(size * 0.72)
FontSize(size) == Trunc(size * 72, 100)

\* draw.textbbox((0, 0), 'Q', font=font): <<left, top, right, bottom>>
textbbox(font, font_size) ==
  LET b0 == (font.b0 * font_size) \div 100
      b1 == (font.b1 * font_size) \div 100
      w == Max(1, (font.w * font_size) \div 100)
      h == Max(1, (font.h * font_size) \div 100)
  IN << b0, b1, b0 + w, b1 + h >>

\* if size >= 64
HasAccent_gt(size) == size > 64
HasAccent(size) == size >= 64

\* The body of create_icon up to the save: the rendered canvas.
\* x and y are kept in hundredths of a pixel (x100, y100).
RenderIcon(size, font) ==
  LET im == NewImage(size)
      bbox == textbbox(font, FontSize(size))
      text_w == bbox[3] - bbox[1]
      text_h == bbox[4] - bbox[2]
      x100 == 50 * (size - text_w) - 100 * bbox[1]
      y100 == 50 * (size - text_h) - 100 * bbox[2] - 3 * size
      line_y == Trunc(y100 + 100 * text_h + 100 * bbox[2] + 2 * size, 100)
      line_h == Max(1, Trunc(size * 15, 1000))
      line_w == Trunc(size * 2, 10)
      line_x == Trunc(size - line_w, 2)
  IN [ w |-> im.w, h |-> im.h, bg |-> im.bg, size |-> size,
       \* ink box of the glyph drawn at (x, y): columns gx0..gx1-1, rows gy0..gy1-1
       gx0 |-> Floor(x100 + 100 * bbox[1], 100),
       gx1 |-> Ceil(x100 + 100 * bbox[3], 100),
       gy0 |-> Floor(y100 + 100 * bbox[2], 100),
       gy1 |-> Ceil(y100 + 100 * bbox[4], 100),
       gbottom100 |-> y100 + 100 * bbox[4],
       line_x |-> line_x, line_y |-> line_y, line_w |-> line_w, line_h |-> line_h,
       bar |-> HasAccent(size),
       \* draw.rectangle([x0, y0, x1, y1]): both corner points are painted
       bx0 |-> line_x, by0 |-> line_y,
       bx1 |-> line_x + line_w, by1 |-> line_y + line_h ]

\* columns and rows of the canvas painted by draw.rectangle
BarCols(c) == IF c.bar THEN Max(c.bx0, 0) .. Min(c.bx1, c.w - 1) ELSE {}
BarRows(c) == IF c.bar THEN Max(c.by0, 0) .. Min(c.by1, c.h - 1) ELSE {}
InBar(c, px, py) == px \in BarCols(c) /\ py \in BarRows(c)
InGlyph(c, px, py) ==
  /\ px \in Max(c.gx0, 0) .. Min(c.gx1 - 1, c.w - 1)
  /\ py \in Max(c.gy0, 0) .. Min(c.gy1 - 1, c.h - 1)

\* draw.text(..., fill=TEXT_COLOR): an anti-aliased glyph pixel is the
\* background blended with the text colour by the coverage a of the pixel
Blend(bg, a) == [k \in 1..4 |-> (bg[k] * (255 - a) + TEXT_COLOR[k] * a + 127) \div 255]
GlyphColors == { Blend(BG_COLOR, a) : a \in 0..255 }

\* the colours pixel (px, py) of a rendered canvas can have: the rectangle
\* is drawn after (over) the text, the text over the background fill
PixelColors(c, px, py) ==
  IF InBar(c, px, py) THEN {WINE_COLOR}
  ELSE IF InGlyph(c, px, py)
       THEN (IF c.bg = BG_COLOR THEN GlyphColors
             ELSE { Blend(c.bg, a) : a \in 0..255 })
       ELSE {c.bg}

\* img.save(output_path, 'PNG'): the file holds the canvas
Png(c) == [kind |-> "png", canvas |-> c]

(* --------------------------- create_ico ------------------------------- *)
\* img_32 = images_16_32[1] (Python index 1 is the second element)
IcoBase_first(images_16_32) == images_16_32[1]
IcoBase(images_16_32) == images_16_32[2]

\* append_images=[img_16], img_16 = images_16_32[0]
IcoAppend_none(images_16_32) == << >>
IcoAppend(images_16_32) == << images_16_32[1] >>

\* base.save(path, format='ICO', sizes=..., append_images=...): for each
\* requested size in increasing order, a size larger than the base image is
\* skipped; otherwise the first provided image (base, then appended) of
\* exactly that size is embedded, and failing that the base image is
\* resampled down to the size.
RECURSIVE IcoFrames(_, _, _)
IcoFrames(todo, base, provided) ==
  IF todo = {} THEN << >>
  ELSE LET s == CHOOSE m \in todo : \A n \in todo : m <= n
           match == { k \in 1..Len(provided) :
                        provided[k].w = s /\ provided[k].h = s }
           rest == IcoFrames(todo \ {s}, base, provided)
       IN IF s > base.w \/ s > base.h \/ s > 256 THEN rest
          ELSE IF match # {}
               THEN << [w |-> s, h |-> s, resampled |-> FALSE,
                        canvas |-> provided[CHOOSE k \in match :
                                              \A j \in match : k <= j]] >> \o rest
               ELSE << [w |-> s, h |-> s, resampled |-> TRUE,
                        canvas |-> base] >> \o rest

\* the container file create_ico writes
Ico(images_16_32) ==
  LET base == IcoBase(images_16_32)
  IN [kind |-> "ico",
      frames |-> IcoFrames(IcoSizes, base, <<base>> \o IcoAppend(images_16_32))]

(* ------------------------ create_svg_favicon -------------------------- *)
\* with open(output_path, 'w') as f: f.write(svg)
SvgWrite_append(old) == IF old = Absent THEN SVG_TEXT ELSE [kind |-> "svg", text |-> "appended"]
SvgWrite(old) == SVG_TEXT

(* ------------------------------ failures ------------------------------ *)
\* No try/except anywhere: an exception raised in any step leaves main()
\* and ends the process.  OnFailure(step) is where control goes.
OnFailure_continue(step) == IF step = "svg" THEN "summary" ELSE "aborted"
OnFailure_default_font(step) == IF step = "font" THEN "save" ELSE "aborted"
OnFailure(step) == "aborted"

\* What a failed Image.save leaves at the path: nothing new if the file
\* could not be opened or was newly created (it is removed again), a
\* truncated file if one was there before.
FailedSaveOutcomes(old) == {old} \cup (IF old # Absent THEN {Partial} ELSE {})
\* What a failed open(path, 'w') / write leaves at the path.
FailedWriteOutcomes(old) == {old, Partial}

(* ----------------------------- console -------------------------------- *)
Banner == [kind |-> "Generating"]
Created(path, what) == [kind |-> "Created", path |-> path, what |-> what]
SummaryLines_short == << [kind |-> "Done"],
                  [kind |-> "item", file |-> PICO],
                  [kind |-> "item", file |-> PSVG],
                  [kind |-> "item", file |-> P32],
                  [kind |-> "item", file |-> PAPPLE],
                  [kind |-> "item", file |-> P192] >>
SummaryLines == << [kind |-> "Done"],
                  [kind |-> "item", file |-> PICO],
                  [kind |-> "item", file |-> PSVG],
                  [kind |-> "item", file |-> P32],
                  [kind |-> "item", file |-> PAPPLE],
                  [kind |-> "item", file |-> P192],
                  [kind |-> "item", file |-> P512] >>

(* ------------------------------- state -------------------------------- *)
VARIABLES
  pc,        \* position of the run
  tempSet,   \* whether the environment variable TEMP is set
  font,      \* the font file at FONT_PATH
  staticDir, \* whether STATIC_DIR exists
  fs,        \* content of every path the program writes
  out,       \* standard output of the current run
  i,         \* 1-based position of the loop over sizes.items()
  images,    \* the dict `images` of main(): size -> canvas
  img_16,    \* the local img_16 of main()
  call,      \* arguments and return point of the running create_icon
  img,       \* the local img of create_icon (its return value)
  steps,     \* history: steps attempted in the current run, in order
  failed,    \* history: the step of the current run that raised
  fs0,       \* history: fs when the current run started
  run,       \* number of the current run
  snapshot   \* history: fs at the end of the first complete run

vars == << pc, tempSet, font, staticDir, fs, out, i, images, img_16, call,
           img, steps, failed, fs0, run, snapshot >>

NoImages == [s \in {} |-> NoImg]

\* what the file system can look like before the first run
InitialFs ==
  { [p \in AllPaths |-> Absent],
    [p \in AllPaths |-> Stale],
    [p \in AllPaths |-> IF p \in {PSVG, P32} THEN Stale ELSE Absent] }

Init ==
  /\ pc = "import"
  /\ tempSet \in BOOLEAN
  /\ font \in Fonts \cup {NoFont}
  /\ fs \in InitialFs
  /\ staticDir \in {TRUE, \E p \in StaticFiles : fs[p] # Absent}
  /\ out = << >>
  /\ i = 0
  /\ images = NoImages
  /\ img_16 = NoImg
  /\ call = NoCall
  /\ img = NoImg
  /\ steps = << >>
  /\ failed = "none"
  /\ fs0 = fs
  /\ run = 1
  /\ snapshot = NoSnapshot

\* an exception raised by `step`
Raise(step) ==
  /\ failed' = step
  /\ pc' = OnFailure(step)

(* ----------------------------- the run -------------------------------- *)
\* module level: TEMP = os.environ['TEMP'] and the two path joins
Import ==
  /\ pc = "import"
  /\ steps' = Append(steps, [op |-> "import", path |-> "-"])
  /\ IF tempSet THEN pc' = "mkdir" /\ failed' = failed
     ELSE Raise("import")
  /\ UNCHANGED << tempSet, font, staticDir, fs, out, i, images, img_16, call,
                  img, fs0, run, snapshot >>

\* os.makedirs(STATIC_DIR, exist_ok=True); print; sizes = {...}; images = {}
MakeDirs ==
  /\ pc = "mkdir"
  /\ steps' = Append(steps, [op |-> "mkdir", path |-> "-"])
  /\ \/ /\ staticDir' = TRUE
        /\ out' = Append(out, Banner)
        /\ i' = 1
        /\ images' = NoImages
        /\ pc' = "loop"
        /\ failed' = failed
     \/ /\ ~staticDir
        /\ Raise("mkdir")
        /\ UNCHANGED << staticDir, out, i, images >>
  /\ UNCHANGED << tempSet, font, fs, img_16, call, img, fs0, run, snapshot >>

\* for filename, size in sizes.items(): ... create_icon(size, path)
LoopCall ==
  /\ pc = "loop"
  /\ i <= Len(sizes)
  /\ call' = [size |-> sizes[i].size, path |-> sizes[i].file, ret |-> "loop"]
  /\ pc' = "create_icon"
  /\ UNCHANGED << tempSet, font, staticDir, fs, out, i, images, img_16, img,
                  steps, failed, fs0, run, snapshot >>

\* loop exhausted: img_16 = create_icon(16, os.path.join(TEMP, 'icon-16.png'))
Call16 ==
  /\ pc = "loop"
  /\ i > Len(sizes)
  /\ call' = [size |-> 16, path |-> T16, ret |-> "img_16"]
  /\ pc' = "create_icon"
  /\ UNCHANGED << tempSet, font, staticDir, fs, out, i, images, img_16, img,
                  steps, failed, fs0, run, snapshot >>

\* create_icon, up to the save: Image.new, ImageFont.truetype, the drawing
CreateIconRender ==
  /\ pc = "create_icon"
  /\ steps' = Append(steps, [op |-> "font", path |-> call.path])
  /\ IF font.ok
     THEN /\ img' = RenderIcon(call.size, font)
          /\ pc' = "save"
          /\ failed' = failed
     ELSE /\ Raise("font")
          /\ img' = img
  /\ UNCHANGED << tempSet, font, staticDir, fs, out, i, images, img_16, call,
                  fs0, run, snapshot >>

\* where create_icon returns to, and what the caller does with the canvas
Return(c) ==
  CASE call.ret = "loop" ->
         /\ images' = [s \in DOMAIN images \cup {call.size} |->
                         IF s = call.size THEN c ELSE images[s]]
         /\ i' = i + 1
         /\ pc' = "loop"
         /\ img' = NoImg
         /\ UNCHANGED img_16
    [] call.ret = "img_16" ->
         /\ img_16' = c
         /\ pc' = "ico"
         /\ img' = NoImg
         /\ UNCHANGED << images, i >>
    [] call.ret = "apple" ->
         /\ pc' = "summary"
         /\ img' = NoImg
         /\ UNCHANGED << images, i, img_16 >>
    [] call.ret = "unit" ->
         /\ pc' = "returned"
         /\ img' = c
         /\ UNCHANGED << images, i, img_16 >>

\* create_icon, the rest: img.save(output_path, 'PNG'); print; return img
CreateIconSave ==
  /\ pc = "save"
  /\ steps' = Append(steps, [op |-> "save", path |-> call.path])
  /\ \/ /\ fs' = [fs EXCEPT ![call.path] = Png(img)]
        /\ out' = Append(out, Created(call.path, ToString(call.size)))
        /\ failed' = failed
        /\ Return(img)
        /\ call' = NoCall
     \/ /\ \E c \in FailedSaveOutcomes(fs[call.path]) :
              fs' = [fs EXCEPT ![call.path] = c]
        /\ Raise("save")
        /\ UNCHANGED << out, i, images, img_16, call, img >>
  /\ UNCHANGED << tempSet, font, staticDir, fs0, run, snapshot >>

\* create_ico([img_16, images[32]], STATIC_DIR/favicon.ico)
CreateIco ==
  /\ pc = "ico"
  /\ steps' = Append(steps, [op |-> "ico", path |-> PICO])
  /\ \/ /\ 32 \in DOMAIN images
        /\ fs' = [fs EXCEPT ![PICO] = Ico(<< img_16, images[32] >>)]
        /\ out' = Append(out, Created(PICO, "ICO"))
        /\ pc' = "svg"
        /\ failed' = failed
     \/ /\ \E c \in FailedSaveOutcomes(fs[PICO]) : fs' = [fs EXCEPT ![PICO] = c]
        /\ Raise("ico")
        /\ out' = out
  /\ UNCHANGED << tempSet, font, staticDir, i, images, img_16, call, img,
                  fs0, run, snapshot >>

\* create_svg_favicon(STATIC_DIR/favicon.svg), then the call
\* create_icon(180, STATIC_DIR/apple-touch-icon.png)
CreateSvg ==
  /\ pc = "svg"
  /\ steps' = Append(steps, [op |-> "svg", path |-> PSVG])
  /\ \/ /\ fs' = [fs EXCEPT ![PSVG] = SvgWrite(fs[PSVG])]
        /\ out' = Append(out, Created(PSVG, "SVG"))
        /\ call' = [size |-> 180, path |-> PAPPLE, ret |-> "apple"]
        /\ pc' = "create_icon"
        /\ failed' = failed
     \/ /\ \E c \in FailedWriteOutcomes(fs[PSVG]) : fs' = [fs EXCEPT ![PSVG] = c]
        /\ Raise("svg")
        /\ UNCHANGED << out, call >>
  /\ UNCHANGED << tempSet, font, staticDir, i, images, img_16, img,
                  fs0, run, snapshot >>

\* print('\nDone! Generated:') and the six item lines; main() returns
Summary ==
  /\ pc = "summary"
  /\ out' = out \o SummaryLines
  /\ pc' = "done"
  /\ snapshot' = IF snapshot = NoSnapshot
                 THEN [taken |-> TRUE, fs |-> fs] ELSE snapshot
  /\ UNCHANGED << tempSet, font, staticDir, fs, i, images, img_16, call, img,
                  steps, failed, fs0, run >>

\* the program is started again, with the same environment and font
Rerun ==
  /\ pc \in {"done", "aborted"}
  /\ run < MaxRuns
  /\ run' = run + 1
  /\ pc' = "import"
  /\ out' = << >>
  /\ i' = 0
  /\ images' = NoImages
  /\ img_16' = NoImg
  /\ call' = NoCall
  /\ img' = NoImg
  /\ steps' = << >>
  /\ failed' = "none"
  /\ fs0' = fs
  /\ UNCHANGED << tempSet, font, staticDir, fs, snapshot >>

Next ==
  \/ Import
  \/ MakeDirs
  \/ LoopCall
  \/ Call16
  \/ CreateIconRender
  \/ CreateIconSave
  \/ CreateIco
  \/ CreateSvg
  \/ Summary
  \/ Rerun

Spec == Init /\ [][Next]_vars

(* ------------------- create_icon checked on its own ------------------- *)
\* one call create_icon(size, path) for a size of UnitSizes
IconInit ==
  /\ pc = "create_icon"
  /\ tempSet = TRUE
  /\ font \in Fonts \cup {NoFont}
  /\ fs \in InitialFs
  /\ staticDir = TRUE
  /\ out = << >>
  /\ i = 0
  /\ images = NoImages
  /\ img_16 = NoImg
  /\ call \in { [size |-> s, path |-> T16, ret |-> "unit"] : s \in UnitSizes }
  /\ img = NoImg
  /\ steps = << >>
  /\ failed = "none"
  /\ fs0 = fs
  /\ run = 1
  /\ snapshot = NoSnapshot

IconNext ==
  \/ CreateIconRender
  \/ CreateIconSave

IconSpec == IconInit /\ [][IconNext]_vars

(* ------------------------------ claims -------------------------------- *)
\* paths of the 'Created' lines printed so far in this run, in order
RECURSIVE CreatedPathsOf(_)
CreatedPathsOf(lines) ==
  IF lines = << >> THEN << >>
  ELSE (IF Head(lines).kind = "Created" THEN << Head(lines).path >> ELSE << >>)
       \o CreatedPathsOf(Tail(lines))
CreatedPaths == CreatedPathsOf(out)
Range(f) == { f[k] : k \in DOMAIN f }
IsPrefix(a, b) == Len(a) <= Len(b) /\ \A k \in 1..Len(a) : a[k] = b[k]
ExpectedOrder == << P32, P192, P512, T16, PICO, PSVG, PAPPLE >>
Complete(p) == fs[p].kind \in {"png", "ico", "svg"}
Corners(c) == { <<0, 0>>, <<c.w - 1, 0>>, <<0, c.h - 1>>, <<c.w - 1, c.h - 1>> }

\* C1: the outputs of a run are produced in the order 32, 192, 512, the
\* 16x16 PNG, favicon.ico, favicon.svg, apple-touch-icon (180); the output
\* directory is ensured before the first of them; the container step never
\* starts before the 16x16 and the 32x32 canvases have been rendered.
C1_Order ==
  /\ IsPrefix(CreatedPaths, ExpectedOrder)
  /\ pc = "done" =>
       /\ CreatedPaths = ExpectedOrder
       /\ fs[P32].canvas.size = 32 /\ fs[P192].canvas.size = 192
       /\ fs[P512].canvas.size = 512 /\ fs[T16].canvas.size = 16
       /\ fs[PAPPLE].canvas.size = 180
  /\ \A k \in 1..Len(steps) :
       steps[k].op \in {"save", "ico", "svg"} =>
         /\ staticDir
         /\ \E j \in 1..(k - 1) : steps[j].op = "mkdir"
  /\ \A k \in 1..Len(steps) :
       steps[k].op = "ico" =>
         /\ img_16 # NoImg /\ img_16.size = 16
         /\ 32 \in DOMAIN images /\ images[32].size = 32
         /\ \E j \in 1..(k - 1) : steps[j] = [op |-> "font", path |-> T16]
         /\ \E j \in 1..(k - 1) : steps[j] = [op |-> "font", path |-> P32]
C1_Witness == pc = "done" /\ CreatedPaths = ExpectedOrder /\ run = 1

EmptyAtStart == \A p \in StaticFiles : fs0[p] = Absent
ItemFiles == { out[k].file : k \in { j \in 1..Len(out) : out[j].kind = "item" } }
C3_AccentIffLarge ==
  img # NoImg =>
    /\ img.size >= 64 =>
         \E px \in BarCols(img), py \in BarRows(img) :
            PixelColors(img, px, py) = {WINE_COLOR}
    /\ img.size < 64 =>
         \A px \in 0..(img.w - 1), py \in 0..(img.h - 1) :
            WINE_COLOR \notin PixelColors(img, px, py)
C3_Witness == pc = "returned" /\ img # NoImg /\ img.size = 64 /\ BarCols(img) # {}

\* C4: once a step has failed the run is over: control is nowhere but at
\* the abort, the failing step is the last step attempted, no step was
\* attempted twice, no 'Done' line is printed, and every file an earlier
\* step reported as created is still there, complete.
C4_FailStop ==
  failed # "none" =>
    /\ pc = "aborted"
    /\ steps # << >> /\ steps[Len(steps)].op = failed
    /\ \A j, k \in 1..Len(steps) : j # k => steps[j] # steps[k]
    /\ \A k \in 1..Len(out) : out[k].kind \notin {"Done", "item"}
    /\ \A k \in 1..Len(CreatedPaths) : Complete(CreatedPaths[k])
C4_Witness ==
  /\ pc = "aborted" /\ failed = "svg"
  /\ Len(CreatedPaths) = 5 /\ Complete(PICO) /\ fs[PSVG] = Partial

\* C5: the container file written by create_ico holds exactly two images,
\* 16x16 and 32x32.
C5_TwoFrames ==
  fs[PICO].kind = "ico" =>
    /\ Len(fs[PICO].frames) = 2
    /\ fs[PICO].frames[1].w = 16 /\ fs[PICO].frames[1].h = 16
    /\ fs[PICO].frames[2].w = 32 /\ fs[PICO].frames[2].h = 32
    /\ \A k \in 1..2 : fs[PICO].frames[k].canvas.w = fs[PICO].frames[k].w
                       /\ fs[PICO].frames[k].canvas.h = fs[PICO].frames[k].h
C5_Witness == pc = "svg" /\ fs[PICO].kind = "ico" /\ fs0[PICO] = Absent

\* C6: once the container has been written in a run, none of its images is
\* resampled: the 16x16 one is the canvas create_icon(16) returned, the
\* 32x32 one is the canvas create_icon(32) returned and favicon-32x32.png
\* holds.
C6_NoResampling ==
  PICO \in Range(CreatedPaths) =>
    /\ fs[PICO].kind = "ico"
    /\ \A k \in 1..Len(fs[PICO].frames) : ~fs[PICO].frames[k].resampled
    /\ \E k \in 1..Len(fs[PICO].frames) :
         /\ fs[PICO].frames[k].canvas = img_16
         /\ img_16 = RenderIcon(16, font)
         /\ fs[T16] = Png(img_16)
    /\ \E k \in 1..Len(fs[PICO].frames) :
         /\ fs[PICO].frames[k].canvas = images[32]
         /\ images[32] = RenderIcon(32, font)
         /\ fs[P32] = Png(images[32])
C6_Witness == pc = "done" /\ PICO \in Range(CreatedPaths) /\ fs[PICO].kind = "ico"

\* C7: after every complete run the files are the same, content for
\* content, as after the first complete run, whatever was there before.
C7_Idempotent ==
  (pc = "done" /\ snapshot.taken) => fs = snapshot.fs
C7_Witness ==
  /\ pc = "done" /\ run = 2 /\ snapshot.taken
  /\ fs0 = snapshot.fs /\ Len(CreatedPaths) = 7

\* C8: a rendered canvas is size x size and its four corner pixels have the
\* background colour (10, 9, 8, 255): neither the bar nor the glyph covers
\* a corner.
C8_Corners ==
  img # NoImg =>
    /\ img.w = img.size /\ img.h = img.size
    /\ \A c \in Corners(img) :
         /\ ~InBar(img, c[1], c[2])
         /\ ~InGlyph(img, c[1], c[2])
         /\ PixelColors(img, c[1], c[2]) = {BG_COLOR}
C8_Witness == pc = "returned" /\ img # NoImg /\ img.size = 512 /\ img.bar

\* C9 as stated: for size >= 64 the painted bar is centred, covers exactly
\* floor(0.2*size) columns and max(1, floor(0.015*size)) rows, and its top
\* row is the glyph's visual bottom plus 2% of size.
C9_BarGeometry ==
  (img # NoImg /\ img.size >= 64) =>
    /\ Cardinality(BarCols(img)) = (2 * img.size) \div 10
    /\ Cardinality(BarRows(img)) = Max(1, (15 * img.size) \div 1000)
    /\ img.by0 = (img.gbottom100 + 2 * img.size) \div 100
    /\ img.bx0 - ((img.w - 1) - img.bx1) \in {0, 1}

\* C10: with the font missing or unloadable the run gets no further than
\* the font load of the first render (32x32): nothing is saved, no file
\* changes, no 'Created' line is printed, and the abort at the font load
\* finds the output directory created.  In every create_icon the save of a
\* path comes right after the font load for that path, so a render that
\* fails on the font leaves the path as it was.
C10_FontFailure ==
  /\ ~font.ok =>
       /\ pc \in {"import", "mkdir", "loop", "create_icon", "aborted"}
       /\ fs = fs0
       /\ CreatedPaths = << >>
       /\ \A k \in 1..Len(steps) : steps[k].op \in {"import", "mkdir", "font"}
       /\ failed \in {"none", "import", "mkdir", "font"}
       /\ failed = "font" =>
            /\ staticDir
            /\ steps[Len(steps)] = [op |-> "font", path |-> call.path]
            /\ call.size = 32 \/ call.ret = "unit"
  /\ \A k \in 1..Len(steps) :
       steps[k].op = "save" =>
         k > 1 /\ steps[k - 1] = [op |-> "font", path |-> steps[k].path]
  /\ failed = "font" => fs[call.path] = fs0[call.path]
C10_Witness ==
  /\ pc = "aborted" /\ failed = "font" /\ ~font.ok
  /\ staticDir /\ call.size = 32 /\ fs[P32] = Absent
====
